---- MODULE Spec2Model ----
(***************************************************************************)
(* Model of app/api/finance/route.ts: the POST handler of the financial   *)
(* data analyst.  A request is validated, its messages and optional file  *)
(* attachment are turned into the outbound message list, the generation   *)
(* service is called once, and the first tool_use block of its reply is   *)
(* run through processToolResponse to build chartData.                     *)
(*                                                                         *)
(* JavaScript values are encoded as follows.  A primitive is a string      *)
(* token: "undefined", "null", "" (the empty string), "#0", "#5" (the      *)
(* numbers 0 and 5), any other string is itself.  An object is a function  *)
(* from its own property names to values; a missing property reads as      *)
(* Undefined.  An object whose key order matters (chartConfig) is the      *)
(* sequence of its entries in Object.entries order.                        *)
(***************************************************************************)
EXTENDS Integers, Sequences, FiniteSets, TLC

VARIABLES
    pc,         \* position of the handler: idle, awaiting, replied, done
    request,    \* body of the request being handled (result of req.json())
    outbound,   \* bedrockMessages, as put into the payload given to bedrock.send
    sendCount,  \* number of calls of bedrock.send while handling this request
    reply,      \* what bedrock.send produced: a parsed reply or a thrown error
    response,   \* the parsed reply object as processToolResponse leaves it
    ran,        \* stages of processToolResponse that ran for this request
    result,     \* the Response returned to the caller: status and JSON body
    inv,        \* normalizer runs: the tool invocation given to the first run
    heap,       \* normalizer runs: that invocation's input object after the runs
    out1,       \* normalizer runs: outcome of processToolResponse on inv
    out2,       \* normalizer runs: outcome of processToolResponse on out1's value
    npc         \* normalizer runs: fresh, once, twice

vars == <<pc, request, outbound, sendCount, reply, response, ran, result,
          inv, heap, out1, out2, npc>>

handlerVars == <<pc, request, outbound, sendCount, reply, response, ran, result>>
normVars == <<inv, heap, out1, out2, npc>>

-----------------------------------------------------------------------------
(* JavaScript values *)

Undefined == "undefined"
Null == "null"

\* The falsy primitives: undefined, null, "", 0, false.
Falsy == {Undefined, Null, "", "#0", "false"}

Truthy(v) == v \notin Falsy

\* a || b
Or(a, b) == IF Truthy(a) THEN a ELSE b

\* o[k] on an object
Get(o, k) == IF k \in DOMAIN o THEN o[k] ELSE Undefined

\* { ...o, [k]: v }
Put(o, k, v) == [x \in (DOMAIN o) \cup {k} |-> IF x = k THEN v ELSE o[x]]

\* The object with no own property.
EmptyObject == [x \in {} |-> Undefined]

\* JSON.stringify leaves out the properties of an object whose value is undefined.
StringifyObject(o) == [x \in {k \in DOMAIN o : o[k] # Undefined} |-> o[x]]

\* All sequences over S of length at most n.
SeqUpTo(S, n) == UNION {[1..k -> S] : k \in 0..n}

-----------------------------------------------------------------------------
(* Base64 and UTF-8.  A base64 payload and a binary string are sequences of *)
(* one-character strings and of byte values; decoded text is the sequence   *)
(* of its code points.                                                      *)

B64Alphabet ==
    <<"A", "B", "C", "D", "E", "F", "G", "H", "I", "J", "K", "L", "M",
      "N", "O", "P", "Q", "R", "S", "T", "U", "V", "W", "X", "Y", "Z",
      "a", "b", "c", "d", "e", "f", "g", "h", "i", "j", "k", "l", "m",
      "n", "o", "p", "q", "r", "s", "t", "u", "v", "w", "x", "y", "z",
      "0", "1", "2", "3", "4", "5", "6", "7", "8", "9", "+", "/">>

IsB64Char(c) == \E i \in 1..Len(B64Alphabet) : B64Alphabet[i] = c

B64Value(c) == (CHOOSE i \in 1..Len(B64Alphabet) : B64Alphabet[i] = c) - 1

AsciiWhitespace == {" ", "\t", "\n", "\f", "\r"}

IsNotWhitespace(c) == c \notin AsciiWhitespace

\* Trailing padding is dropped only when the length is a multiple of four.
StripPadding(s) ==
    IF Len(s) > 0 /\ Len(s) % 4 = 0
    THEN IF s[Len(s)] = "=" /\ s[Len(s) - 1] = "="
         THEN SubSeq(s, 1, Len(s) - 2)
         ELSE IF s[Len(s)] = "="
              THEN SubSeq(s, 1, Len(s) - 1)
              ELSE s
    ELSE s

\* The bytes of a sequence of 6-bit values; leftover bits of the tail are dropped.
RECURSIVE B64Bytes(_)
B64Bytes(v) ==
    IF Len(v) >= 4
    THEN LET n == v[1] * 262144 + v[2] * 4096 + v[3] * 64 + v[4]
         IN  <<n \div 65536, (n \div 256) % 256, n % 256>>
                 \o B64Bytes(SubSeq(v, 5, Len(v)))
    ELSE IF Len(v) = 3
         THEN LET n == (v[1] * 4096 + v[2] * 64 + v[3]) \div 4
              IN  <<n \div 256, n % 256>>
         ELSE IF Len(v) = 2
              THEN <<(v[1] * 64 + v[2]) \div 16>>
              ELSE <<>>

\* atob(str): [ok |-> FALSE] stands for the exception it throws.
atob(str) ==
    LET s == StripPadding(SelectSeq(str, IsNotWhitespace))
    IN  IF Len(s) % 4 = 1 \/ \E i \in 1..Len(s) : ~IsB64Char(s[i])
        THEN [ok |-> FALSE, bytes |-> <<>>]
        ELSE [ok |-> TRUE,
              bytes |-> B64Bytes([i \in 1..Len(s) |-> B64Value(s[i])])]

\* btoa(bin) for a binary string of byte values.
RECURSIVE btoa(_)
btoa(b) ==
    IF Len(b) >= 3
    THEN LET n == b[1] * 65536 + b[2] * 256 + b[3]
         IN  <<B64Alphabet[(n \div 262144) + 1],
               B64Alphabet[((n \div 4096) % 64) + 1],
               B64Alphabet[((n \div 64) % 64) + 1],
               B64Alphabet[(n % 64) + 1]>> \o btoa(SubSeq(b, 4, Len(b)))
    ELSE IF Len(b) = 2
         THEN LET n == (b[1] * 256 + b[2]) * 4
              IN  <<B64Alphabet[(n \div 4096) + 1],
                    B64Alphabet[((n \div 64) % 64) + 1],
                    B64Alphabet[(n % 64) + 1], "=">>
         ELSE IF Len(b) = 1
              THEN LET n == b[1] * 16
                   IN  <<B64Alphabet[(n \div 64) + 1],
                         B64Alphabet[(n % 64) + 1], "=", "=">>
              ELSE <<>>

\* isValidBase64(str): btoa(atob(str)) === str, false when atob throws.
isValidBase64(str) ==
    LET d == atob(str)
    IN  IF d.ok THEN btoa(d.bytes) = str ELSE FALSE

IsContinuation(b) == b >= 128 /\ b <= 191

\* decodeURIComponent(escape(bin)): bin read as UTF-8; [ok |-> FALSE] stands
\* for the URIError thrown on a malformed sequence.
RECURSIVE Utf8Decode(_)
Utf8Decode(b) ==
    IF b = <<>>
    THEN [ok |-> TRUE, text |-> <<>>]
    ELSE LET n == IF b[1] < 128 THEN 1
                  ELSE IF b[1] >= 192 /\ b[1] <= 223 THEN 2
                  ELSE IF b[1] >= 224 /\ b[1] <= 239 THEN 3
                  ELSE IF b[1] >= 240 /\ b[1] <= 247 THEN 4
                  ELSE 0
             wellFormed == /\ n > 0
                           /\ Len(b) >= n
                           /\ \A i \in 2..n : IsContinuation(b[i])
             cp == IF n = 1 THEN b[1]
                   ELSE IF n = 2 THEN (b[1] - 192) * 64 + (b[2] - 128)
                   ELSE IF n = 3
                        THEN (b[1] - 224) * 4096 + (b[2] - 128) * 64
                                 + (b[3] - 128)
                        ELSE (b[1] - 240) * 262144 + (b[2] - 128) * 4096
                                 + (b[3] - 128) * 64 + (b[4] - 128)
             minimal == IF n = 1 THEN TRUE
                        ELSE IF n = 2 THEN cp >= 128
                        ELSE IF n = 3 THEN cp >= 2048 /\ (cp < 55296 \/ cp > 57343)
                        ELSE cp >= 65536 /\ cp <= 1114111
         IN  IF ~wellFormed
             THEN [ok |-> FALSE, text |-> <<>>]
             ELSE IF ~minimal
                  THEN [ok |-> FALSE, text |-> <<>>]
                  ELSE LET rest == Utf8Decode(SubSeq(b, n + 1, Len(b)))
                       IN  IF rest.ok
                           THEN [ok |-> TRUE, text |-> <<cp>> \o rest.text]
                           ELSE [ok |-> FALSE, text |-> <<>>]

-----------------------------------------------------------------------------
(* processToolResponse.  The tool invocation's input is an object with the  *)
(* properties chartType (a string), config (an object), data (a value       *)
(* tagged with its type, an array carrying its rows as items) and           *)
(* chartConfig (the sequence of its [key, entry] pairs in Object.entries    *)
(* order); any of them may be missing.                                      *)

\* Object.keys of an object kept as its sequence of entries.
ObjectKeys(entries) == [i \in 1..Len(entries) |-> entries[i].key]

\* SetEntry with the new key spread before acc: { [k]: v, ...acc }.
SetEntryFront(acc, k, v) ==
    IF \E i \in 1..Len(acc) : acc[i].key = k
    THEN [i \in 1..Len(acc) |->
              IF acc[i].key = k THEN [key |-> k, entry |-> v] ELSE acc[i]]
    ELSE <<[key |-> k, entry |-> v]>> \o acc

\* acc with property k set to v: a new key goes last, an old one keeps its place.
SetEntry(acc, k, v) ==
    IF \E i \in 1..Len(acc) : acc[i].key = k
    THEN [i \in 1..Len(acc) |->
              IF acc[i].key = k THEN [key |-> k, entry |-> v] ELSE acc[i]]
    ELSE Append(acc, [key |-> k, entry |-> v])

\* InvalidChartStructure without the Array.isArray test.
InvalidChartStructureNoArrayCheck(chartData) ==
    \/ ~Truthy(Get(chartData, "chartType"))
    \/ ~("data" \in DOMAIN chartData /\ chartData.data.type # "null")

\* !chartData.chartType || !chartData.data || !Array.isArray(chartData.data)
InvalidChartStructure(chartData) ==
    \/ ~Truthy(Get(chartData, "chartType"))
    \/ ~("data" \in DOMAIN chartData /\ chartData.data.type # "null")
    \/ ~("data" \in DOMAIN chartData /\ chartData.data.type = "array")

\* The callback of chartData.data.map for a pie chart.
PieRow(item, chartData) ==
    LET keys == ObjectKeys(chartData.chartConfig)
        valueKey == IF Len(keys) > 0 THEN keys[1] ELSE Undefined
        segmentKey == Or(Get(chartData.config, "xAxisKey"), "segment")
    IN  [segment |-> Or(Or(Or(Get(item, segmentKey), Get(item, "segment")),
                           Get(item, "category")),
                        Get(item, "name")),
         value |-> Or(Get(item, valueKey), Get(item, "value"))]

\* The pie branch: data is replaced by the mapped rows and config.xAxisKey is
\* set, both on the invocation's own input object.  Reading a property of a
\* missing chartConfig or config throws a TypeError where the code reaches it.
PieTransform(chartData) ==
    LET items == chartData.data.items
    IN  IF items # <<>> /\ ("chartConfig" \notin DOMAIN chartData
                             \/ "config" \notin DOMAIN chartData)
        THEN [threw |-> TRUE, input |-> chartData]
        ELSE LET mapped ==
                     [chartData EXCEPT !.data =
                         [type |-> "array",
                          items |-> [i \in 1..Len(items) |->
                                         PieRow(items[i], chartData)]]]
             IN  IF "config" \notin DOMAIN mapped
                 THEN [threw |-> TRUE, input |-> mapped]
                 ELSE [threw |-> FALSE,
                       input |-> [mapped EXCEPT !.config =
                                      Put(@, "xAxisKey", "segment")]]

\* `hsl(var(--chart-${index + 1}))`
ChartColor(index) == "hsl(var(--chart-" \o ToString(index + 1) \o "))"

\* ColoredEntry with the spread last: { color: ..., ...config }.
ColoredEntryKeepsColor(config, index) ==
    IF "color" \in DOMAIN config
    THEN config
    ELSE Put(config, "color", "hsl(var(--chart-" \o ToString(index + 1) \o "))")

\* { ...config, color: ... }
ColoredEntry(config, index) == Put(config, "color", ChartColor(index))

\* Object.entries(chartConfig).reduce(..., {}) from position index (0-based) on.
RECURSIVE ReduceEntries(_, _, _)
ReduceEntries(entries, acc, index) ==
    IF index >= Len(entries)
    THEN acc
    ELSE ReduceEntries(entries,
                       SetEntry(acc, entries[index + 1].key,
                                ColoredEntry(entries[index + 1].entry, index)),
                       index + 1)

Thrown(message, input, stages) ==
    [threw |-> TRUE, message |-> message, value |-> EmptyObject,
     input |-> input, ran |-> stages]

\* processToolResponse(toolUseContent) for a tool_use block.  value is the
\* object it returns, input the block's input object as the call leaves it,
\* ran the stages entered.  The block's name is not read.
processToolResponse(toolUseContent) ==
    LET chartData == toolUseContent.input
    IN  IF InvalidChartStructure(chartData)
        THEN Thrown("Invalid chart data structure", chartData, {"validate"})
        ELSE LET isPie == chartData.chartType = "pie"
                 pie == IF isPie
                        THEN PieTransform(chartData)
                        ELSE [threw |-> FALSE, input |-> chartData]
                 stages == IF isPie THEN {"validate", "pie"} ELSE {"validate"}
             IN  IF pie.threw
                 THEN Thrown("TypeError", pie.input, stages)
                 ELSE IF "chartConfig" \notin DOMAIN pie.input
                      THEN Thrown("TypeError", pie.input, stages \cup {"color"})
                      ELSE [threw |-> FALSE,
                            message |-> "",
                            value |-> Put(pie.input, "chartConfig",
                                          ReduceEntries(pie.input.chartConfig,
                                                        <<>>, 0)),
                            input |-> pie.input,
                            ran |-> stages \cup {"color"}]

-----------------------------------------------------------------------------
(* Inputs of the handler *)

MaxMessages == 2
MaxBlocks == 2

\* null in a JSON body, where the other values are objects.
JsonNull == [isNull |-> TRUE]

MessageValues ==
    {[role |-> "user", content |-> "summarize"],
     [role |-> "assistant", content |-> "Revenue grew", id |-> "m1"]}

\* The messages property: an array of messages, or a value that is no array.
MessagesValues ==
    {[type |-> "array", items |-> l] : l \in SeqUpTo(MessageValues, MaxMessages)}
        \cup {[type |-> "string", items |-> <<>>]}

ModelValues == {"", "anthropic.claude-3-haiku"}

B64Hi == <<"a", "G", "k", "=">>
B64Hello == <<"a", "G", "V", "s", "b", "G", "8", "=">>
B64EAcute == <<"w", "6", "k", "=">>
B64Unpadded == <<"a", "G", "k">>
B64LooseBits == <<"a", "G", "l", "=">>
B64BadChar == <<"!", "!", "!", "!">>
B64BadLength == <<"a">>
B64BadUtf8 == <<"/", "w", "=", "=">>

Base64Values ==
    {<<>>, B64Hi, B64Hello, B64EAcute, B64Unpadded, B64LooseBits, B64BadChar,
     B64BadLength, B64BadUtf8}

\* A media type "type/subtype".
MediaTypeValues ==
    {[type |-> "image", subtype |-> "png"],
     [type |-> "application", subtype |-> "pdf"]}

\* mediaType.startsWith("image/")
StartsWithImage(mediaType) == mediaType.type = "image"

\* The objects of S, each also with property k set to a value of V.
With(S, k, V) == S \cup {Put(o, k, v) : o \in S, v \in V}

FileDataValues ==
    With(With(With({[fileName |-> "a.txt"]}, "base64", Base64Values),
              "mediaType", MediaTypeValues),
         "isText", {"true"})

Requests ==
    With(With(With({EmptyObject}, "messages", MessagesValues),
              "model", ModelValues),
         "fileData", FileDataValues)

\* Rows of chart data.
RowValues ==
    {[name |-> "A", sales |-> "#5"],
     [name |-> "B", sales |-> "#0", value |-> "#7"],
     [period |-> "Q1", sales |-> "#5", costs |-> "#3"],
     [segment |-> "Equities", value |-> "#7"],
     [category |-> "C", sales |-> ""]}

\* The chartConfig entry the service sends for a key.
EntryOf(key) ==
    IF key = "sales" THEN [label |-> "Sales"]
    ELSE IF key = "costs" THEN [label |-> "Costs", color |-> "red"]
    ELSE [label |-> "Profit", stacked |-> "true",
          color |-> "hsl(var(--chart-1))"]

ArrayOf(rows) == [type |-> "array", items |-> rows]

BarInput ==
    [chartType |-> "bar",
     config |-> [title |-> "Revenue", xAxisKey |-> "period"],
     data |-> ArrayOf(<<[period |-> "Q1", sales |-> "#5", costs |-> "#3"]>>),
     chartConfig |-> <<[key |-> "sales", entry |-> EntryOf("sales")],
                       [key |-> "costs", entry |-> EntryOf("costs")]>>]

PieInput ==
    [chartType |-> "pie",
     config |-> [title |-> "Share", xAxisKey |-> "name"],
     data |-> ArrayOf(<<[name |-> "A", sales |-> "#5"],
                        [name |-> "B", sales |-> "#0", value |-> "#7"]>>),
     chartConfig |-> <<[key |-> "sales", entry |-> EntryOf("sales")]>>]

\* The inputs the service sends for generate_graph_data: well-formed ones, one
\* with a chartType outside the schema's enum, and ones without chartType,
\* without data, and with data that is a string.
GraphInputValues ==
    {BarInput, PieInput,
     [BarInput EXCEPT !.chartType = "scatter"],
     [k \in (DOMAIN BarInput) \ {"chartType"} |-> BarInput[k]],
     [k \in (DOMAIN PieInput) \ {"data"} |-> PieInput[k]],
     [BarInput EXCEPT !.data = [type |-> "string", items |-> <<>>]]}

StockInput == [ticker |-> "AMZN", start |-> "2024-01-01", end |-> "2024-02-01"]

BlockValues ==
    {[type |-> "text", text |-> "Revenue grew 16% quarter over quarter"]}
        \cup {[type |-> "tool_use", name |-> "generate_graph_data", input |-> i] :
                  i \in GraphInputValues}
        \cup {[type |-> "tool_use", name |-> "get_stock_price", input |-> StockInput]}

\* The content of a reply of the service.
ReplyContents == SeqUpTo(BlockValues, MaxBlocks)

\* What bedrock.send throws: an Error with or without a statusCode (0 stands
\* for none), or a value that is no Error.
SendErrors ==
    {[isError |-> TRUE, statusCode |-> 0, message |-> "socket hang up"],
     [isError |-> TRUE, statusCode |-> 429, message |-> "Too many requests"],
     [isError |-> FALSE, statusCode |-> 0, message |-> ""]}

NoReply == [kind |-> "none"]
NoResult == [status |-> 0, body |-> EmptyObject]

-----------------------------------------------------------------------------
(* The POST handler up to the call of bedrock.send *)

\* !messages || !Array.isArray(messages)
MessagesRejected(req) ==
    ~("messages" \in DOMAIN req /\ req.messages.type = "array")

\* ModelRejected without the test.
ModelRejectedNever(req) == FALSE

\* !model
ModelRejected(req) == ~Truthy(Get(req, "model"))

\* messages.map(msg => ({ role: msg.role, content: msg.content }))
ConvertMessages(messages) ==
    [i \in 1..Len(messages) |->
        [role |-> Get(messages[i], "role"), content |-> Get(messages[i], "content")]]

\* !base64
NoBase64(fileData) ==
    IF "base64" \in DOMAIN fileData THEN fileData.base64 = <<>> ELSE TRUE

\* ReplaceLast with the text block before the attachment block.
ReplaceLastSwapped(bedrockMessages, messages, first) ==
    [bedrockMessages EXCEPT ![Len(bedrockMessages)] =
        [role |-> "user",
         content |-> <<[type |-> "text",
                        text |-> Get(messages[Len(messages)], "content")],
                       first>>]]

\* bedrockMessages[bedrockMessages.length - 1] = { role: "user", content: [first, text] }
\* where text carries messages[messages.length - 1].content.
ReplaceLast(bedrockMessages, messages, first) ==
    [bedrockMessages EXCEPT ![Len(bedrockMessages)] =
        [role |-> "user",
         content |-> <<first,
                       [type |-> "text",
                        text |-> Get(messages[Len(messages)], "content")]>>]]

\* `File contents of ${fileData.fileName}:\n\n${textContent}`
FileText(fileData, textContent) ==
    <<"File contents of ", Get(fileData, "fileName"), ":\n\n", textContent>>

\* The try block that handles the file: threw stands for any exception in it
\* (atob, decodeURIComponent, a property read on undefined).
HandleFile(fileData, messages, bedrockMessages) ==
    IF Truthy(Get(fileData, "isText"))
    THEN LET bin == atob(fileData.base64)
             textContent == Utf8Decode(bin.bytes)
         IN  IF ~bin.ok \/ ~textContent.ok \/ Len(messages) = 0
             THEN [threw |-> TRUE, messages |-> bedrockMessages]
             ELSE [threw |-> FALSE,
                   messages |-> ReplaceLast(bedrockMessages, messages,
                       [type |-> "text",
                        text |-> FileText(fileData, textContent.text)])]
    ELSE IF "mediaType" \notin DOMAIN fileData
         THEN [threw |-> TRUE, messages |-> bedrockMessages]
         ELSE IF StartsWithImage(fileData.mediaType)
              THEN IF Len(messages) = 0
                   THEN [threw |-> TRUE, messages |-> bedrockMessages]
                   ELSE [threw |-> FALSE,
                         messages |-> ReplaceLast(bedrockMessages, messages,
                             [type |-> "image",
                              source |-> [type |-> "base64",
                                          media_type |-> fileData.mediaType,
                                          data |-> fileData.base64]])]
              ELSE [threw |-> FALSE, messages |-> bedrockMessages]

\* bedrockMessages as the payload carries it, for a request past validation.
InputNormalizer(req) ==
    LET bedrockMessages == ConvertMessages(req.messages.items)
    IN  IF "fileData" \in DOMAIN req
        THEN HandleFile(req.fileData, req.messages.items, bedrockMessages)
        ELSE [threw |-> FALSE, messages |-> bedrockMessages]

BadRequest(message) == [status |-> 400, body |-> [error |-> message]]

Returns(res) ==
    /\ result' = res
    /\ pc' = "done"

\* A request reaches the handler and req.json() yields its body.
NewRequest ==
    /\ pc = "idle"
    /\ \E req \in Requests : request' = req
    /\ pc' = "received"
    /\ UNCHANGED <<outbound, sendCount, reply, response, ran, result>>
    /\ UNCHANGED normVars

RejectMessages ==
    /\ pc = "received"
    /\ MessagesRejected(request)
    /\ Returns(BadRequest("Messages array is required"))
    /\ UNCHANGED <<request, outbound, sendCount, reply, response, ran>>
    /\ UNCHANGED normVars

RejectModel ==
    /\ pc = "received"
    /\ ~MessagesRejected(request)
    /\ ModelRejected(request)
    /\ Returns(BadRequest("Model selection is required"))
    /\ UNCHANGED <<request, outbound, sendCount, reply, response, ran>>
    /\ UNCHANGED normVars

RejectNoFileData ==
    /\ pc = "received"
    /\ ~MessagesRejected(request)
    /\ ~ModelRejected(request)
    /\ "fileData" \in DOMAIN request
    /\ NoBase64(request.fileData)
    /\ Returns(BadRequest("No file data"))
    /\ UNCHANGED <<request, outbound, sendCount, reply, response, ran>>
    /\ UNCHANGED normVars

RejectFileError ==
    /\ pc = "received"
    /\ ~MessagesRejected(request)
    /\ ~ModelRejected(request)
    /\ "fileData" \in DOMAIN request
    /\ ~NoBase64(request.fileData)
    /\ InputNormalizer(request).threw
    /\ Returns(BadRequest("Failed to process file content"))
    /\ UNCHANGED <<request, outbound, sendCount, reply, response, ran>>
    /\ UNCHANGED normVars

\* The payload is built and bedrock.send is called with it.
SendToBedrock ==
    /\ pc = "received"
    /\ ~MessagesRejected(request)
    /\ ~ModelRejected(request)
    /\ IF "fileData" \in DOMAIN request THEN ~NoBase64(request.fileData) ELSE TRUE
    /\ ~InputNormalizer(request).threw
    /\ outbound' = InputNormalizer(request).messages
    /\ sendCount' = sendCount + 1
    /\ pc' = "awaiting"
    /\ UNCHANGED <<request, reply, response, ran, result>>
    /\ UNCHANGED normVars

-----------------------------------------------------------------------------
(* The POST handler after bedrock.send *)

\* content.find(c => c.type === type): the position of the first such block, 0 for none.
FindFirst(content, type) ==
    IF \E i \in 1..Len(content) : content[i].type = type
    THEN CHOOSE i \in 1..Len(content) :
             /\ content[i].type = type
             /\ \A j \in 1..(i - 1) : content[j].type # type
    ELSE 0

\* JSON.stringify of a tool input or of chartData: rows lose their undefined properties.
StringifyChart(o) ==
    IF "data" \in DOMAIN o
    THEN IF o.data.type = "array"
         THEN [o EXCEPT !.data =
                  ArrayOf([i \in 1..Len(o.data.items) |->
                               StringifyObject(o.data.items[i])])]
         ELSE o
    ELSE o

\* The catch block.
CatchResponse(error) ==
    IF error.isError
    THEN LET statusCode == IF error.statusCode # 0 THEN error.statusCode ELSE 500
         IN  [status |-> statusCode,
              body |-> [error |-> "Bedrock API Error",
                        details |-> error.message,
                        code |-> statusCode]]
    ELSE [status |-> 500, body |-> [error |-> "An unknown error occurred"]]

\* The handler from the parsed reply on: the tool_use block found, the outcome
\* of processToolResponse on it, and the reply object as that call leaves it.
Continuation(content) ==
    LET toolAt == FindFirst(content, "tool_use")
        textAt == FindFirst(content, "text")
        outcome == processToolResponse(content[toolAt])
        after == IF toolAt = 0
                 THEN content
                 ELSE [content EXCEPT ![toolAt].input = outcome.input]
    IN  [toolAt |-> toolAt,
         threw |-> IF toolAt = 0 THEN FALSE ELSE outcome.threw,
         message |-> IF toolAt = 0 THEN "" ELSE outcome.message,
         ran |-> IF toolAt = 0 THEN {} ELSE outcome.ran,
         content |-> after,
         body |->
            LET fields ==
                    [content |-> IF textAt = 0 THEN "" ELSE Or(content[textAt].text, ""),
                     hasToolUse |-> \E i \in 1..Len(content) : content[i].type = "tool_use",
                     chartData |-> IF toolAt = 0
                                   THEN JsonNull
                                   ELSE StringifyChart(outcome.value)]
            IN  IF toolAt = 0
                THEN fields
                ELSE Put(fields, "toolUse",
                         [after[toolAt] EXCEPT !.input = StringifyChart(@)])]

\* bedrock.send throws; the catch block answers.
BedrockRejects ==
    /\ pc = "awaiting"
    /\ \E e \in SendErrors :
          /\ reply' = [kind |-> "rejected", error |-> e]
          /\ Returns(CatchResponse(e))
    /\ UNCHANGED <<request, outbound, sendCount, response, ran>>
    /\ UNCHANGED normVars

\* bedrock.send resolves and the handler runs to its 200 response.
RespondOk ==
    /\ pc = "awaiting"
    /\ \E content \in ReplyContents :
          LET c == Continuation(content)
          IN  /\ ~c.threw
              /\ reply' = [kind |-> "resolved", content |-> content]
              /\ response' = c.content
              /\ ran' = c.ran
              /\ Returns([status |-> 200, body |-> c.body])
    /\ UNCHANGED <<request, outbound, sendCount>>
    /\ UNCHANGED normVars

\* bedrock.send resolves, processToolResponse throws and the catch block answers.
RespondProcessingError ==
    /\ pc = "awaiting"
    /\ \E content \in ReplyContents :
          LET c == Continuation(content)
          IN  /\ c.threw
              /\ reply' = [kind |-> "resolved", content |-> content]
              /\ response' = c.content
              /\ ran' = c.ran
              /\ Returns(CatchResponse([isError |-> TRUE, statusCode |-> 0,
                                        message |-> c.message]))
    /\ UNCHANGED <<request, outbound, sendCount>>
    /\ UNCHANGED normVars

\* The response is handed to the framework; nothing of the request is kept.
Finish ==
    /\ pc = "done"
    /\ pc' = "idle"
    /\ request' = EmptyObject
    /\ outbound' = <<>>
    /\ sendCount' = 0
    /\ reply' = NoReply
    /\ response' = <<>>
    /\ ran' = {}
    /\ result' = NoResult
    /\ UNCHANGED normVars

Init ==
    /\ pc = "idle"
    /\ request = EmptyObject
    /\ outbound = <<>>
    /\ sendCount = 0
    /\ reply = NoReply
    /\ response = <<>>
    /\ ran = {}
    /\ result = NoResult
    /\ inv = EmptyObject
    /\ heap = EmptyObject
    /\ out1 = EmptyObject
    /\ out2 = EmptyObject
    /\ npc = "unused"

Next ==
    \/ NewRequest
    \/ RejectMessages
    \/ RejectModel
    \/ RejectNoFileData
    \/ RejectFileError
    \/ SendToBedrock
    \/ BedrockRejects
    \/ RespondOk
    \/ RespondProcessingError
    \/ Finish

Spec == Init /\ [][Next]_vars

-----------------------------------------------------------------------------
(* The Chart Data Normalizer on its own: processToolResponse applied to a   *)
(* generate_graph_data invocation, then to an invocation carrying the first *)
(* run's output as its input.                                               *)

MaxRows == 2
MaxSeries == 2

ChartTypes == {"bar", "multiBar", "line", "pie", "area", "stackedArea"}

SeriesKeys == {"sales", "costs", "profit"}

\* The chartConfig objects of at most MaxSeries keys.
ChartConfigValues ==
    {[i \in 1..Len(keys) |-> [key |-> keys[i], entry |-> EntryOf(keys[i])]] :
        keys \in {q \in SeqUpTo(SeriesKeys, MaxSeries) :
                     \A i, j \in 1..Len(q) : i # j => q[i] # q[j]}}

NormalizerInputs ==
    With(With(With(With({EmptyObject},
                        "chartType", ChartTypes \cup {"scatter"}),
                   "config", With({[title |-> "Revenue"]}, "xAxisKey",
                                  {"name", "period"})),
              "data", {ArrayOf(rows) : rows \in SeqUpTo(RowValues, MaxRows)}
                          \cup {[type |-> "string", items |-> <<>>]}),
         "chartConfig", ChartConfigValues)

NoOutcome == [threw |-> FALSE, message |-> "", value |-> EmptyObject,
              input |-> EmptyObject, ran |-> {}]

InitNormalizer ==
    /\ pc = "idle"
    /\ request = EmptyObject
    /\ outbound = <<>>
    /\ sendCount = 0
    /\ reply = NoReply
    /\ response = <<>>
    /\ ran = {}
    /\ result = NoResult
    /\ \E input \in NormalizerInputs :
          /\ inv = [type |-> "tool_use", name |-> "generate_graph_data",
                    input |-> input]
          /\ heap = input
    /\ out1 = NoOutcome
    /\ out2 = NoOutcome
    /\ npc = "fresh"

\* processToolResponse runs on the invocation.
Normalize ==
    /\ npc = "fresh"
    /\ out1' = processToolResponse(inv)
    /\ heap' = out1'.input
    /\ npc' = "once"
    /\ UNCHANGED <<inv, out2>>
    /\ UNCHANGED handlerVars

\* processToolResponse runs on an invocation whose input is the first run's output.
Renormalize ==
    /\ npc = "once"
    /\ ~out1.threw
    /\ out2' = processToolResponse([inv EXCEPT !.input = out1.value])
    /\ npc' = "twice"
    /\ UNCHANGED <<inv, heap, out1>>
    /\ UNCHANGED handlerVars

NextNormalizer ==
    \/ Normalize
    \/ Renormalize

SpecNormalizer == InitNormalizer /\ [][NextNormalizer]_vars

-----------------------------------------------------------------------------
(* Properties of the handler *)

\* The handler has answered a request for which the service replied.
Answered == pc = "done" /\ reply.kind = "resolved"

\* The first tool_use block of the service's reply, as the service sent it.
SentToolAt == FindFirst(reply.content, "tool_use")
SentTool == reply.content[SentToolAt]

\* C1: a reply whose first tool_use block names a tool other than
\* generate_graph_data is answered with 200, toolUse being that block
\* unchanged and chartData null.
C1_OtherToolPassedThrough ==
    (Answered /\ SentToolAt # 0) =>
        (SentTool.name # "generate_graph_data" =>
            /\ result.status = 200
            /\ result.body.toolUse = SentTool
            /\ result.body.chartData = JsonNull)

\* The input of the first tool_use block lacks chartType or data, or its data is no array.
SentStructureBroken ==
    IF "chartType" \notin DOMAIN SentTool.input THEN TRUE
    ELSE IF "data" \notin DOMAIN SentTool.input THEN TRUE
    ELSE SentTool.input.data.type # "array"

\* C2: a generate_graph_data invocation without chartType, without data or
\* with data that is no array is answered with status 500 and a body without
\* chartData; neither the pie transform nor the colour assignment has run and
\* the invocation is as the service sent it.
C2_BrokenStructureRejected ==
    (Answered /\ SentToolAt # 0) =>
        ((SentTool.name = "generate_graph_data" /\ SentStructureBroken) =>
            /\ result.status = 500
            /\ "chartData" \notin DOMAIN result.body
            /\ result.body.error = "Bedrock API Error"
            /\ ran \cap {"pie", "color"} = {}
            /\ response = reply.content)

\* A pie invocation without data has been answered.
C2_Witness ==
    /\ Answered
    /\ SentToolAt = 2
    /\ SentTool.name = "generate_graph_data"
    /\ "data" \notin DOMAIN SentTool.input
    /\ Get(SentTool.input, "chartType") = "pie"
    /\ result.status = 500

\* C3: in every 200 response with chartData, chartData.chartType is one of
\* bar, multiBar, line, pie, area, stackedArea.
C3_ChartTypeInEnum ==
    (pc = "done" /\ result.status = 200) =>
        (result.body.chartData # JsonNull =>
            result.body.chartData.chartType
                \in {"bar", "multiBar", "line", "pie", "area", "stackedArea"})

\* C7: the toolUse block of a 200 response equals the block the service sent.
C7_ToolUseUnchanged ==
    (Answered /\ result.status = 200 /\ SentToolAt # 0) =>
        result.body.toolUse = SentTool

\* The request carries a file and the handler took its text branch.
TextAttachment ==
    IF "fileData" \in DOMAIN request
    THEN Get(request.fileData, "isText") = "true"
    ELSE FALSE

\* The request carries a file that is no text and whose media type is image/...
ImageAttachment ==
    IF "fileData" \in DOMAIN request
    THEN IF "isText" \notin DOMAIN request.fileData
         THEN IF "mediaType" \in DOMAIN request.fileData
              THEN request.fileData.mediaType.type = "image"
              ELSE FALSE
         ELSE FALSE
    ELSE FALSE

\* The text of the sample payloads that are base64 of UTF-8 text: "hi",
\* "hello" and "e" with an acute accent.
SampleText(base64) ==
    IF base64 = B64Hello THEN <<104, 101, 108, 108, 111>>
    ELSE IF base64 = B64EAcute THEN <<233>>
    ELSE <<104, 105>>

\* Messages 1..n of the outbound list carry role and content of the request's.
SameUpTo(n) ==
    \A i \in 1..n :
        /\ outbound[i].role = request.messages.items[i].role
        /\ outbound[i].content = request.messages.items[i].content

\* C8: without a file the outbound list equals the request's messages in
\* role and content; with a text or image attachment every message but the
\* last is unchanged and the last one's content is the attachment block (the
\* file's text under "File contents of <fileName>:\n\n", or the image with
\* the original base64 and media type) followed by a text block with the
\* original last message's content.
C8_InputNormalizer ==
    pc = "awaiting" =>
        LET messages == request.messages.items
            n == Len(messages)
        IN  /\ Len(outbound) = n
            /\ "fileData" \notin DOMAIN request => SameUpTo(n)
            /\ TextAttachment =>
                  /\ n > 0
                  /\ SameUpTo(n - 1)
                  /\ outbound[n].content =
                        <<[type |-> "text",
                           text |-> <<"File contents of ", "a.txt", ":\n\n",
                                      SampleText(request.fileData.base64)>>],
                          [type |-> "text", text |-> messages[n].content]>>
            /\ ImageAttachment =>
                  /\ n > 0
                  /\ SameUpTo(n - 1)
                  /\ outbound[n].content =
                        <<[type |-> "image",
                           source |-> [type |-> "base64",
                                       media_type |-> [type |-> "image",
                                                       subtype |-> "png"],
                                       data |-> request.fileData.base64]],
                          [type |-> "text", text |-> messages[n].content]>>

\* A request of two messages with the text file "hello" is on its way to the service.
C8_Witness ==
    /\ pc = "awaiting"
    /\ TextAttachment
    /\ request.fileData.base64 = B64Hello
    /\ Len(outbound) = 2
    /\ Len(outbound[2].content) = 2

\* C9: an image block built from an attached file and handed to bedrock.send
\* has a media type starting with "image/" and a payload that is valid base64.
C9_ImageBlocksValid ==
    (pc = "awaiting" /\ ImageAttachment) =>
        LET block == outbound[Len(outbound)].content[1]
        IN  /\ block.type = "image"
            /\ block.source.media_type.type = "image"
            /\ isValidBase64(block.source.data)

\* The request fails validation: messages missing or no array, model missing
\* or empty, or a file without base64, or a file whose processing raises (a
\* text payload that does not decode, a file that is no text and has no media
\* type, a text or image file with no message to attach it to).
FailsValidation ==
    IF "messages" \notin DOMAIN request THEN TRUE
    ELSE IF request.messages.type # "array" THEN TRUE
    ELSE IF "model" \notin DOMAIN request THEN TRUE
    ELSE IF request.model = "" THEN TRUE
    ELSE IF "fileData" \notin DOMAIN request THEN FALSE
    ELSE IF "base64" \notin DOMAIN request.fileData THEN TRUE
    ELSE IF request.fileData.base64 = <<>> THEN TRUE
    ELSE IF TextAttachment
         THEN IF request.messages.items = <<>> THEN TRUE
              ELSE request.fileData.base64
                       \in {B64BadChar, B64BadLength, B64BadUtf8}
         ELSE IF "mediaType" \notin DOMAIN request.fileData THEN TRUE
              ELSE ImageAttachment /\ request.messages.items = <<>>

\* The request has an array of messages and no model.
OnlyModelMissing ==
    IF "messages" \notin DOMAIN request THEN FALSE
    ELSE IF request.messages.type # "array" THEN FALSE
    ELSE IF "model" \notin DOMAIN request THEN TRUE
    ELSE request.model = ""

-----------------------------------------------------------------------------
(* Properties of the Chart Data Normalizer *)

\* The invocation is a valid chart of a type other than pie.
ValidNonPie ==
    IF "chartType" \in DOMAIN inv.input
    THEN /\ inv.input.chartType \in {"bar", "multiBar", "line", "area", "stackedArea"}
         /\ "data" \in DOMAIN inv.input
         /\ "chartConfig" \in DOMAIN inv.input
         /\ IF "data" \in DOMAIN inv.input
            THEN inv.input.data.type = "array"
            ELSE FALSE
    ELSE FALSE

\* The invocation is a pie chart that the first run accepted.
PieDone ==
    /\ npc # "fresh"
    /\ ~out1.threw
    /\ Get(inv.input, "chartType") = "pie"

\* The first truthy one of a source row's fields named after config.xAxisKey,
\* segment and category, or else its name field.
SegmentOf(row) ==
    LET named == IF "xAxisKey" \in DOMAIN inv.input.config
                 THEN Get(row, inv.input.config.xAxisKey)
                 ELSE Undefined
    IN  IF named \notin Falsy THEN named
        ELSE IF Get(row, "segment") \notin Falsy THEN Get(row, "segment")
        ELSE IF Get(row, "category") \notin Falsy THEN Get(row, "category")
        ELSE Get(row, "name")

\* C4: for a pie chart every output row has exactly the keys segment and
\* value, value is the source row's field named after the first chartConfig
\* key also where that field is 0 or empty, segment is the field named after
\* config.xAxisKey or else segment, category or name, and config.xAxisKey is
\* "segment".  Rows without a field named after the first chartConfig key
\* are left out of the statement on value.
C4_PieRows ==
    PieDone =>
        LET source == inv.input.data.items
            rows == out1.value.data.items
            keys == inv.input.chartConfig
        IN  /\ Len(rows) = Len(source)
            /\ out1.value.config.xAxisKey = "segment"
            /\ \A i \in 1..Len(rows) :
                  /\ DOMAIN rows[i] = {"segment", "value"}
                  /\ (Len(keys) > 0 /\ keys[1].key \in DOMAIN source[i]) =>
                        rows[i].value = source[i][keys[1].key]
                  /\ rows[i].segment = SegmentOf(source[i])

\* C5: for a valid chart of a type other than pie the output data is the
\* input data, the output chartConfig has the input's keys in the input's
\* order, and the entry at position i has colour slot i whatever colour it
\* had, so that the slots of two positions differ.
C5_NonPieDataAndColours ==
    (npc # "fresh" /\ ValidNonPie) =>
        LET before == inv.input.chartConfig
            after == out1.value.chartConfig
        IN  /\ ~out1.threw
            /\ out1.value.data = inv.input.data
            /\ Len(after) = Len(before)
            /\ \A i \in 1..Len(after) :
                  /\ after[i].key = before[i].key
                  /\ after[i].entry.label = before[i].entry.label
                  /\ after[i].entry.color =
                        "hsl(var(--chart-" \o ToString(i) \o "))"
            /\ \A i, j \in 1..Len(after) :
                  i # j => after[i].entry.color # after[j].entry.color

\* A multiBar chart of two rows and two series, the second of which came with a colour, has been normalized.
C5_Witness ==
    /\ npc = "once"
    /\ ValidNonPie
    /\ inv.input.chartType = "multiBar"
    /\ Len(inv.input.data.items) = 2
    /\ Len(inv.input.chartConfig) = 2
    /\ "color" \in DOMAIN inv.input.chartConfig[2].entry
    /\ ~out1.threw

\* C6: for a valid chart of a type other than pie, the normalizer run on its
\* own output returns the chartConfig and the data of the first run.
C6_Idempotent ==
    (npc = "twice" /\ ValidNonPie) =>
        /\ ~out2.threw
        /\ out2.value.chartConfig = out1.value.chartConfig
        /\ out2.value.data = out1.value.data

\* A line chart with two series has been normalized twice.
C6_Witness ==
    /\ npc = "twice"
    /\ ValidNonPie
    /\ inv.input.chartType = "line"
    /\ Len(out2.value.chartConfig) = 2
    /\ Len(out2.value.data.items) > 0

====
